---- MODULE Spec2Model ----
(***************************************************************************)
(* NIS2-Dash backend: one GET /api/data request driven through             *)
(* Handlers.DataHandler (backend/internal/server/handlers.go), the Snyk    *)
(* export client (backend/internal/snyk/client.go) and the CSV processor   *)
(* (backend/internal/processor).                                           *)
(*                                                                         *)
(* Strings that the code splits or trims are sequences of one-character    *)
(* strings; opaque strings (status words, messages) are TLA+ strings.      *)
(* Time is counted in seconds since PollExportStatus was entered.          *)
(***************************************************************************)
EXTENDS Integers, Sequences, FiniteSets, TLC

\* ------------------------------------------------------------------ bounds
MaxParamLen == 3    \* longest `orgs` query parameter explored
MaxPages    == 2    \* most pages the provider serves for the group's org list
MaxResults  == 2    \* most files in a results response
MaxRows     == 2    \* most data rows of a CSV with freely chosen fields
MaxProjects == 6    \* most projects of a CSV with one block of rows per project

\* ------------------------------------------------------- program constants
PollIntervalSec == 5     \* time.NewTicker(5 * time.Second)
PollTimeoutSec  == 300   \* context.WithTimeout(ctx, 5*time.Minute)
StatusOK                  == 200
StatusMethodNotAllowed    == 405
StatusInternalServerError == 500

\* ------------------------------------------------------------ input sets
Alphabet   == {"a", ",", " "}
Methods    == {"GET", "POST"}
\* the organization IDs one page of the group's org list can carry
PageContents == {<<>>, << <<"a">> >>, << <<"b">> >>, << <<"a">>, <<"b">> >>}
ExportIDs  == {"", "exp-1"}               \* data.id of the initiate response
FileURLs   == {"", "u1", "u2"}            \* url of a file of a results response
ErrTexts   == {"upstream-x", "upstream-y"}  \* text of an upstream error
StatusWords == {"PENDING", "FINISHED", "ERROR"}

SeqsUpTo(S, n) == UNION {[1..k -> S] : k \in 0..n}
Strings(n)     == SeqsUpTo(Alphabet, n)

NoErr == "nil"

\* --------------------------------------------------------- string helpers
RECURSIVE Split(_)
\* strings.Split(s, ","): the pieces between commas, empty pieces included
Split(s) ==
    IF \A i \in 1..Len(s) : s[i] # ","
    THEN <<s>>
    ELSE LET i == CHOOSE k \in 1..Len(s) :
                      s[k] = "," /\ \A j \in 1..(k - 1) : s[j] # ","
         IN  <<SubSeq(s, 1, i - 1)>> \o Split(SubSeq(s, i + 1, Len(s)))

RECURSIVE TrimLeft(_)
TrimLeft(s) == IF s # <<>> /\ Head(s) = " " THEN TrimLeft(Tail(s)) ELSE s

RECURSIVE TrimRight(_)
TrimRight(s) ==
    IF s # <<>> /\ s[Len(s)] = " " THEN TrimRight(SubSeq(s, 1, Len(s) - 1)) ELSE s

\* strings.TrimSpace
TrimSpace(s) == TrimRight(TrimLeft(s))

NonEmptyStr(s) == s # <<>>

\* splitAndClean(input): split on commas, trim, drop the empty pieces
splitAndClean(input) ==
    IF input = <<>>
    THEN <<>>
    ELSE LET parts   == Split(input)
             trimmed == [i \in 1..Len(parts) |-> TrimSpace(parts[i])]
         IN  SelectSeq(trimmed, NonEmptyStr)


\* ------------------------------------------------------------------ state
VARIABLES
    method,        \* r.Method of the request being served, "" before it arrives
    paramOrgs,     \* splitAndClean(r.URL.Query().Get("orgs")) of that request
    ctxCancelled,  \* r.Context() has been cancelled (the caller went away)
    pc,            \* where DataHandler and the client call it is in stand
    orgs,          \* DataHandler's orgs, later filters.Orgs
    url,           \* GetOrgsInGroup: page to request next, 0 for ""
    allOrgIDs,     \* GetOrgsInGroup: IDs accumulated so far
    pagesSeen,     \* the pages GetOrgsInGroup decoded, in order
    orgReqs,       \* number of org-list requests sent
    exportReq,     \* the export request InitiateExport sent, if any
    exportID,      \* DataHandler's exportID
    pollOrg,       \* orgID argument of PollExportStatus
    now,           \* seconds since PollExportStatus started its ticker
    tickReady,     \* a tick waits in ticker.C (a channel of capacity 1)
    resp,          \* PollExportStatus: outcome of the last status request
    results,       \* PollExportStatus: file list of the results response
    ret,           \* (value, error) the last client call returned
    fileURL,       \* DataHandler's fileURL
    sent,          \* kinds of outbound HTTP requests sent so far
    called,        \* client functions DataHandler has called, in order
    completed,     \* client functions that returned without error, in order
    response,      \* what DataHandler wrote to the ResponseWriter
    csv,           \* the response to the GET of the file URL, once it came
    inflight,      \* the requests the server's goroutines are serving at once
    maps           \* the aggregation maps of each FetchAndProcessCSV call

vars == <<method, paramOrgs, ctxCancelled, pc, orgs, url, allOrgIDs, pagesSeen,
          orgReqs, exportReq, exportID, pollOrg, now, tickReady, resp, results,
          ret, fileURL, sent, called, completed, response, csv,
          inflight, maps>>

reqVars  == <<method, paramOrgs>>
orgVars  == <<url, allOrgIDs, pagesSeen, orgReqs>>
pollVars == <<now, tickReady, resp, results>>
logVars  == <<sent, called, completed>>
concVars == <<inflight, maps>>

NoResp     == [kind |-> "none"]
NoRet      == [val |-> <<>>, err |-> NoErr]
NoReq      == [sent |-> FALSE]
NoResponse == [code |-> 0, body |-> ""]
NoCSV      == [status |-> 0, header |-> <<>>, rows |-> <<>>]

\* Outcomes of one HTTP exchange, as the caller's code tells them apart:
\* Do returned an error, a status the caller rejects, an unreadable body,
\* a body that does not decode, or a decoded body.
FailureKinds == {"transport", "status", "body", "decode"}

\* A request made with a cancelled context fails in Do.
Failures(cancelled) == IF cancelled THEN {"transport"} ELSE FailureKinds

Init ==
    /\ method = ""
    /\ paramOrgs = <<>>
    /\ ctxCancelled = FALSE
    /\ pc = "start"
    /\ orgs = <<>>
    /\ url = 0
    /\ allOrgIDs = <<>>
    /\ pagesSeen = <<>>
    /\ orgReqs = 0
    /\ exportReq = NoReq
    /\ exportID = ""
    /\ pollOrg = <<>>
    /\ now = 0
    /\ tickReady = FALSE
    /\ resp = NoResp
    /\ results = <<>>
    /\ ret = NoRet
    /\ fileURL = ""
    /\ sent = {}
    /\ called = <<>>
    /\ completed = <<>>
    /\ response = NoResponse
    /\ csv = NoCSV
    /\ inflight = <<>>
    /\ maps = <<>>

\* http.Error(w, msg, code) and respondWithJSON(w, code, payload)
Respond(code, body) ==
    /\ response' = [code |-> code, body |-> body]
    /\ pc' = "done"


\* ------------------------------------------------------------ DataHandler
\* mutant: the method check is missing
MethodAllowed_Any(m) == TRUE

\* handlers.go:33  r.Method != http.MethodGet
MethodAllowed(m) == m = "GET"

\* mutant: the group's organizations are never looked up
NeedsOrgLookup_Never(o) == FALSE

\* handlers.go:44  len(orgs) == 0
NeedsOrgLookup(o) == Len(o) = 0

\* mutant: the upstream error text is sent to the caller
ErrorBody_Leak(stage, err) == err

\* handlers.go:49,69,77,85  the fixed texts DataHandler passes to http.Error
ErrorBody(stage, err) ==
    CASE stage = "orgs"     -> "Failed to fetch Snyk organizations"
      [] stage = "initiate" -> "Failed to initiate Snyk export"
      [] stage = "poll"     -> "Failed to complete Snyk export"
      [] stage = "fetch"    -> "Failed to process exported Snyk data"

\* mutant: the error of a client call is ignored
StageFailed_Ignored(r) == FALSE

\* handlers.go:47,67,75,83  `if err != nil { http.Error(...); return }`
StageFailed(r) == r.err # NoErr

\* A request arrives and DataHandler runs up to its first client call:
\* method check, query parsing.
HandlerStart ==
    /\ pc = "start"
    /\ \E m \in Methods, orgsParam \in Strings(MaxParamLen) :
          /\ method' = m
          /\ IF ~MethodAllowed(m)
             THEN /\ Respond(StatusMethodNotAllowed, "Method Not Allowed")
                  /\ UNCHANGED <<paramOrgs, orgs, url>>
             ELSE LET parsed == splitAndClean(orgsParam)
                  IN  /\ paramOrgs' = parsed
                      /\ orgs' = parsed
                      /\ response' = response
                      /\ IF NeedsOrgLookup(parsed)
                         THEN pc' = "listOrgs" /\ url' = 1
                         ELSE pc' = "initiate" /\ url' = url
    /\ called' = IF pc' = "listOrgs" THEN <<"GetOrgsInGroup">> ELSE called
    /\ UNCHANGED <<ctxCancelled, csv, concVars, allOrgIDs, pagesSeen, orgReqs, exportReq,
                   exportID, pollOrg, pollVars, ret, fileURL, sent, completed>>

\* ---------------------------------------------------------- GetOrgsInGroup
\* mutant: each page replaces the IDs collected so far
AppendPage_Overwrite(all, ids) == ids

\* client.go:79-81  allOrgIDs = append(allOrgIDs, org.ID) for each org of the page
AppendPage(all, ids) == all \o ids

\* client.go:57,63,69,75  `return nil, err` on any failed page
OrgsFailValue(all) == <<>>

\* One iteration of `for url != ""`: request a page, decode it, follow next.
GetOrgsInGroupPage ==
    /\ pc = "listOrgs"
    /\ url # 0
    /\ sent' = sent \cup {"orgs"}
    /\ orgReqs' = orgReqs + 1
    /\ \/ \E k \in Failures(ctxCancelled), e \in ErrTexts :
             /\ ret' = [val |-> OrgsFailValue(allOrgIDs), err |-> e]
             /\ pc' = "orgsReturned"
             /\ UNCHANGED <<url, allOrgIDs, pagesSeen, completed>>
       \/ /\ ~ctxCancelled
          /\ \E ids \in PageContents, hasNext \in BOOLEAN :
                /\ hasNext => url < MaxPages
                /\ allOrgIDs' = AppendPage(allOrgIDs, ids)
                /\ pagesSeen' = Append(pagesSeen, [ids |-> ids, next |-> hasNext])
                /\ IF hasNext
                   THEN /\ url' = url + 1
                        /\ UNCHANGED <<pc, ret, completed>>
                   ELSE /\ url' = 0
                        /\ ret' = [val |-> AppendPage(allOrgIDs, ids), err |-> NoErr]
                        /\ completed' = Append(completed, "GetOrgsInGroup")
                        /\ pc' = "orgsReturned"
    /\ UNCHANGED <<reqVars, ctxCancelled, csv, concVars, orgs, exportReq, exportID, pollOrg,
                   pollVars, fileURL, called, response>>

\* handlers.go:47-52
AfterGetOrgs ==
    /\ pc = "orgsReturned"
    /\ IF StageFailed(ret)
       THEN Respond(StatusInternalServerError, ErrorBody("orgs", ret.err)) /\ orgs' = orgs
       ELSE orgs' = ret.val /\ pc' = "initiate" /\ response' = response
    /\ UNCHANGED <<reqVars, ctxCancelled, csv, concVars, orgVars, exportReq, exportID, pollOrg,
                   pollVars, ret, fileURL, logVars>>

\* ---------------------------------------------------------- InitiateExport
\* mutant: the empty organization list is not rejected before the request
NoOrgsGiven_Unchecked(o) == FALSE

\* client.go:95  len(filters.Orgs) == 0
NoOrgsGiven(o) == Len(o) = 0

\* client.go:99  orgID := filters.Orgs[0]   (handlers.go:74 too)
HasFirst(o) == Len(o) > 0

\* client.go:106-122  the columns the export is asked to have
RequestedColumns ==
    <<"ISSUE_SEVERITY", "SCORE", "CVE", "CWE", "ORG_DISPLAY_NAME", "PROJECT_NAME",
      "PROJECT_URL", "EXPLOIT_MATURITY", "AUTOFIXABLE", "FIRST_INTRODUCED",
      "PRODUCT_NAME", "ISSUE_URL", "ISSUE_STATUS_INDICATOR", "ISSUE_TYPE",
      "PROJECT_ENVIRONMENTS">>

\* mutant: the POST goes to the last organization of the list
ExportRequest_LastOrg(o) == [sent |-> TRUE, org |-> o[Len(o)], bodyOrgs |-> <<>>]

\* client.go:101-140: the POST goes to the first organization; the body's
\* filters carry no organization list (RequestFilters.Orgs is never set).
ExportRequest(o) == [sent |-> TRUE, org |-> o[1], bodyOrgs |-> <<>>]

InitiateExport ==
    /\ pc = "initiate"
    /\ called' = Append(called, "InitiateExport")
    /\ IF NoOrgsGiven(orgs)
       THEN /\ ret' = [val |-> "", err |-> "no organizations specified for export"]
            /\ pc' = "initReturned"
            /\ UNCHANGED <<exportReq, sent, completed>>
       ELSE IF ~HasFirst(orgs)
       THEN /\ pc' = "panic"      \* index out of range
            /\ UNCHANGED <<exportReq, sent, ret, completed>>
       ELSE /\ exportReq' = ExportRequest(orgs)
            /\ sent' = sent \cup {"initiate"}
            /\ pc' = "initReturned"
            /\ \/ /\ \E k \in Failures(ctxCancelled) \ {"body"}, e \in ErrTexts :
                        ret' = [val |-> "", err |-> e]
                  /\ completed' = completed
               \/ /\ ~ctxCancelled
                  /\ \E id \in ExportIDs : ret' = [val |-> id, err |-> NoErr]
                  /\ completed' = Append(completed, "InitiateExport")
    /\ UNCHANGED <<reqVars, ctxCancelled, csv, concVars, orgs, orgVars, exportID, pollOrg,
                   pollVars, fileURL, response>>

\* handlers.go:67-74: on success PollExportStatus is entered with
\* filters.Orgs[0]; it starts its ticker and its deadline.
AfterInitiate ==
    /\ pc = "initReturned"
    /\ IF StageFailed(ret)
       THEN /\ Respond(StatusInternalServerError, ErrorBody("initiate", ret.err))
            /\ UNCHANGED <<exportID, pollOrg, called>>
       ELSE IF ~HasFirst(orgs)
       THEN /\ pc' = "panic"      \* index out of range
            /\ exportID' = ret.val
            /\ UNCHANGED <<pollOrg, response, called>>
       ELSE /\ exportID' = ret.val
            /\ pollOrg' = orgs[1]
            /\ called' = Append(called, "PollExportStatus")
            /\ pc' = "poll"
            /\ response' = response
    /\ UNCHANGED <<reqVars, ctxCancelled, csv, concVars, orgs, orgVars, exportReq, pollVars, ret,
                   fileURL, sent, completed>>

\* -------------------------------------------------------- PollExportStatus
\* mutant: the select waits on the caller's context, which has no deadline
PollingCtxDone_NoDeadline(t, cancelled) == cancelled

\* mutant: pollingCtx is derived from context.Background()
PollingCtxDone_Detached(t, cancelled) == t >= PollTimeoutSec

\* client.go:189,195  pollingCtx is done once the 5-minute deadline has
\* passed or the caller's context is cancelled.
PollingCtxDone(t, cancelled) == t >= PollTimeoutSec \/ cancelled

\* client.go:202-225: a status exchange that failed (Do, status code, body
\* read or JSON decoding)
StatusRequestFailed(r) == r.kind \in FailureKinds

\* mutant: a failed status request ends the polling
AfterFailedStatus_Abort == "pollReturned"

\* client.go:204,210,218,224  `continue`: back to the select
AfterFailedStatus == "poll"

\* client.go:229,255  the cases of the switch on the status word
IsFinished(w) == w = "FINISHED"
\* mutant: every status other than FINISHED is taken for a failed job
IsError_NotFinished(w) == w # "FINISHED"

IsError(w) == w = "ERROR"

\* mutant: the last file of the list is returned
FirstFileURL_Last(list) == list[Len(list)]

\* client.go:252  resultsResp.Data.Attributes.Results[0].URL
FirstFileURL(list) == list[1]

\* The function returns: `defer ticker.Stop()` runs.
PollReturn(val, err) ==
    /\ ret' = [val |-> val, err |-> err]
    /\ pc' = "pollReturned"
    /\ tickReady' = FALSE
    /\ completed' = IF err = NoErr THEN Append(completed, "PollExportStatus")
                                   ELSE completed

\* Time passes while the goroutine is blocked: in select with no case ready,
\* or in an HTTP exchange whose context is still live. The ticker fires
\* every PollIntervalSec; a tick that finds ticker.C full is dropped.
Advance ==
    /\ pc \in {"poll", "status", "results"}
    /\ ~PollingCtxDone(now, ctxCancelled)
    /\ now < PollTimeoutSec     \* the clock is not followed past the deadline
    /\ pc = "poll" => ~tickReady
    /\ now' = now + PollIntervalSec
    /\ tickReady' = TRUE
    /\ UNCHANGED <<reqVars, ctxCancelled, csv, concVars, pc, orgs, orgVars, exportReq, exportID,
                   pollOrg, resp, results, ret, fileURL, logVars, response>>

\* client.go:195-196  case <-pollingCtx.Done()
PollTimeout ==
    /\ pc = "poll"
    /\ PollingCtxDone(now, ctxCancelled)
    /\ PollReturn("", "polling timed out after 5 minutes")
    /\ UNCHANGED <<reqVars, ctxCancelled, csv, concVars, orgs, orgVars, exportReq, exportID,
                   pollOrg, now, resp, results, fileURL, sent, called, response>>

\* mutant: the loop does not wait for the ticker
PollTick_NoWait ==
    /\ pc = "poll"
    /\ tickReady' = FALSE
    /\ sent' = sent \cup {"status"}
    /\ pc' = "status"
    /\ UNCHANGED <<reqVars, ctxCancelled, csv, concVars, orgs, orgVars, exportReq, exportID,
                   pollOrg, now, resp, results, ret, fileURL, called, completed,
                   response>>

\* client.go:197-201  case <-ticker.C: the status request is sent
PollTick ==
    /\ pc = "poll"
    /\ tickReady
    /\ tickReady' = FALSE
    /\ sent' = sent \cup {"status"}
    /\ pc' = "status"
    /\ UNCHANGED <<reqVars, ctxCancelled, csv, concVars, orgs, orgVars, exportReq, exportID,
                   pollOrg, now, resp, results, ret, fileURL, called, completed,
                   response>>

\* client.go:201-225  the status exchange ends
StatusResponse ==
    /\ pc = "status"
    /\ \/ \E k \in Failures(PollingCtxDone(now, ctxCancelled)) :
             resp' = [kind |-> k]
       \/ /\ ~PollingCtxDone(now, ctxCancelled)
          /\ \E w \in StatusWords : resp' = [kind |-> "ok", status |-> w]
    /\ pc' = "statusGot"
    /\ UNCHANGED <<reqVars, ctxCancelled, csv, concVars, orgs, orgVars, exportReq, exportID,
                   pollOrg, now, tickReady, results, ret, fileURL, logVars, response>>

\* client.go:202-257  what the loop does with the status response
HandleStatus ==
    /\ pc = "statusGot"
    /\ IF StatusRequestFailed(resp)
       THEN /\ pc' = AfterFailedStatus
            /\ resp' = NoResp
            /\ UNCHANGED <<ret, tickReady, sent, completed>>
       ELSE IF IsFinished(resp.status)
       THEN /\ sent' = sent \cup {"results"}
            /\ pc' = "results"
            /\ UNCHANGED <<ret, tickReady, resp, completed>>
       ELSE IF IsError(resp.status)
       THEN /\ PollReturn("", "export job failed with ERROR status")
            /\ UNCHANGED <<sent, resp>>
       ELSE /\ pc' = "poll"
            /\ resp' = NoResp
            /\ UNCHANGED <<ret, tickReady, sent, completed>>
    /\ UNCHANGED <<reqVars, ctxCancelled, csv, concVars, orgs, orgVars, exportReq, exportID,
                   pollOrg, now, results, fileURL, called, response>>

\* client.go:233-254  the results exchange ends
ResultsResponse ==
    /\ pc = "results"
    /\ \/ /\ \E k \in Failures(PollingCtxDone(now, ctxCancelled)) \ {"body"} : TRUE
          /\ pc' = "poll"
          /\ resp' = NoResp
          /\ UNCHANGED <<results, ret, tickReady, completed>>
       \/ /\ ~PollingCtxDone(now, ctxCancelled)
          /\ \E list \in SeqsUpTo(FileURLs, MaxResults) :
                /\ results' = list
                /\ resp' = resp
                /\ IF Len(list) > 0
                   THEN PollReturn(FirstFileURL(list), NoErr)
                   ELSE PollReturn("", "export finished but no file URL was provided")
    /\ UNCHANGED <<reqVars, ctxCancelled, csv, concVars, orgs, orgVars, exportReq, exportID,
                   pollOrg, now, fileURL, sent, called, response>>

\* handlers.go:75-80; PollExportStatus's locals are gone.
AfterPoll ==
    /\ pc = "pollReturned"
    /\ IF StageFailed(ret)
       THEN /\ Respond(StatusInternalServerError, ErrorBody("poll", ret.err))
            /\ UNCHANGED <<fileURL, called>>
       ELSE /\ fileURL' = ret.val
            /\ called' = Append(called, "FetchAndProcessCSV")
            /\ pc' = "fetch"
            /\ response' = response
    /\ now' = 0
    /\ resp' = NoResp
    /\ results' = <<>>
    /\ UNCHANGED <<reqVars, ctxCancelled, csv, concVars, orgs, orgVars, exportReq, exportID,
                   pollOrg, tickReady, ret, sent, completed>>

\* ------------------------------------------------------------ CSVProcessor
\* The body of the CSV response, as encoding/csv hands it to the code: a
\* header record and data records, each a sequence of fields.  Column names
\* and opaque field values are TLA+ strings; the environments field, which
\* the code splits, is a sequence of characters.
UndefinedEnv == <<"u", "n", "d", "e", "f", "i", "n", "e", "d">>
NAEnv_Split  == <<"N", ",", "A">>
NAEnv        == <<"N", "/", "A">>

TopN == 5    \* projects[:5]

Has(header, name) == \E i \in 1..Len(header) : header[i] = name

\* colIndex[colName] = i over the header: the last column of that name wins,
\* and a name that is no key of the map reads as Go's zero index
ColIndex(header, name) ==
    IF Has(header, name)
    THEN CHOOSE i \in 1..Len(header) :
            header[i] = name /\ \A j \in (i + 1)..Len(header) : header[j] # name
    ELSE 1

\* part_006:59  the columns whose absence is an error
RequiredColumns == {"ISSUE_SEVERITY", "COMPUTED_FIXABILITY", "PROJECT_NAME"}

MissingRequired_FixabilityOnly(header) == ~Has(header, "COMPUTED_FIXABILITY")

MissingRequired(header) == \E c \in RequiredColumns : ~Has(header, c)

\* reader.Read() with FieldsPerRecord 0: a record whose field count differs
\* from the first record's comes with csv.ErrFieldCount
ReadError(header, record) == Len(record) # Len(header)

Accepted_RequiredPresent(header, record) ==
    \A c \in RequiredColumns : Len(record) >= ColIndex(header, c)

\* part_006:73  the records the loop does not skip
Accepted(header, record) ==
    ~(ReadError(header, record) \/ Len(record) < Len(header))

\* m[k]++ on a Go map
Incr(m, k) == IF k \in DOMAIN m THEN [m EXCEPT ![k] = @ + 1] ELSE m @@ (k :> 1)

RECURSIVE IncrAll(_, _)
IncrAll(m, keys) == IF keys = <<>> THEN m ELSE IncrAll(Incr(m, Head(keys)), Tail(keys))

NoCounts == [k \in {} |-> 0]

CountsSeverity_Always(severity) == TRUE

\* part_006:87
CountsSeverity(severity) == severity # ""

IsFixableCritical_AnyCase(severity, autofixable) ==
    severity \in {"critical", "Critical"} /\ autofixable \in {"fixable", "Fixable"}

\* part_006:97
IsFixableCritical(severity, autofixable) ==
    severity = "critical" /\ autofixable = "fixable"

\* part_006:82-85  the environments value of one record
Environments(header, record) ==
    IF /\ Has(header, "PROJECT_ENVIRONMENTS")
       /\ Len(record) >= ColIndex(header, "PROJECT_ENVIRONMENTS")
    THEN record[ColIndex(header, "PROJECT_ENVIRONMENTS")]
    ELSE NAEnv

\* mutant: only the first environment of the field is counted
EnvKeys_FirstOnly(header, record) ==
    LET environments == Environments(header, record)
        listed       == splitAndClean(environments)
    IN  IF environments # <<>>
        THEN SubSeq(listed, 1, IF Len(listed) > 1 THEN 1 ELSE Len(listed))
        ELSE <<UndefinedEnv>>

\* mutant: the else branch of the empty field is missing
EnvKeys_NoUndefined(header, record) ==
    LET environments == Environments(header, record)
    IN  IF environments # <<>> THEN splitAndClean(environments) ELSE <<>>

\* part_006:90-96  the environment buckets one record adds to
EnvKeys(header, record) ==
    LET environments == Environments(header, record)
    IN  IF environments # <<>> THEN splitAndClean(environments) ELSE <<UndefinedEnv>>

\* part_006:78-109  the loop body for one accepted record
FoldRecord(acc, header, record) ==
    LET severity    == record[ColIndex(header, "ISSUE_SEVERITY")]
        autofixable == record[ColIndex(header, "COMPUTED_FIXABILITY")]
        projectName == record[ColIndex(header, "PROJECT_NAME")]
        proj0       == IF projectName \in DOMAIN acc.projectIssues
                       THEN acc.projectIssues
                       ELSE acc.projectIssues @@
                            (projectName :> [critical |-> 0, high |-> 0])
        proj1       == [proj0 EXCEPT ![projectName] =
                           [critical |-> @.critical + (IF severity = "critical" THEN 1 ELSE 0),
                            high     |-> @.high + (IF severity = "high" THEN 1 ELSE 0)]]
    IN  [issuesBySeverity    |-> IF CountsSeverity(severity)
                                 THEN Incr(acc.issuesBySeverity, severity)
                                 ELSE acc.issuesBySeverity,
         issuesByEnvironment |-> IncrAll(acc.issuesByEnvironment, EnvKeys(header, record)),
         fixableCriticals    |-> acc.fixableCriticals +
                                 (IF IsFixableCritical(severity, autofixable)
                                  THEN 1 ELSE 0),
         projectIssues       |-> proj1]

RECURSIVE FoldRows(_, _, _)
FoldRows(acc, header, rows) ==
    IF rows = <<>>
    THEN acc
    ELSE FoldRows(IF Accepted(header, Head(rows))
                  THEN FoldRecord(acc, header, Head(rows))
                  ELSE acc,
                  header, Tail(rows))

EmptyAcc == [issuesBySeverity |-> NoCounts, issuesByEnvironment |-> NoCounts,
             fixableCriticals |-> 0, projectIssues |-> NoCounts]

Less_CriticalOnly(a, b) == a.criticalIssueCount > b.criticalIssueCount

\* part_006:116-121  the less function given to sort.Slice
Less(a, b) ==
    IF a.criticalIssueCount # b.criticalIssueCount
    THEN a.criticalIssueCount > b.criticalIssueCount
    ELSE a.highIssueCount > b.highIssueCount

ProjectInfo(name, c) ==
    [name |-> name, criticalIssueCount |-> c.critical, highIssueCount |-> c.high]

\* every arrangement of a set of values in a sequence
RECURSIVE Orderings(_)
Orderings(S) ==
    IF S = {}
    THEN {<<>>}
    ELSE UNION {{<<x>> \o q : q \in Orderings(S \ {x})} : x \in S}

\* the arrangements sort.Slice can leave behind: no element is less than one
\* before it
RECURSIVE SortedOrderings(_)
SortedOrderings(S) ==
    IF S = {}
    THEN {<<>>}
    ELSE UNION {{<<x>> \o q : q \in SortedOrderings(S \ {x})} :
                    x \in {y \in S : \A z \in S : ~Less(z, y)}}

\* mutant: the list keeps its last entries
Truncate_Tail(q) == SubSeq(q, IF Len(q) > TopN THEN Len(q) - TopN + 1 ELSE 1, Len(q))

\* part_006:123-125  topProjects[:5]
Truncate(q) == SubSeq(q, 1, IF Len(q) > TopN THEN TopN ELSE Len(q))

TopProjects_Unsorted(projectIssues) ==
    {Truncate(q) :
        q \in Orderings({ProjectInfo(n, projectIssues[n]) : n \in DOMAIN projectIssues})}

\* part_006:112-125  the map is walked in an unspecified order and sort.Slice
\* is not stable: every ordering that the less function admits can come out.
TopProjects(projectIssues) ==
    {Truncate(q) :
        q \in SortedOrderings({ProjectInfo(n, projectIssues[n]) : n \in DOMAIN projectIssues})}

\* The DashboardData values FetchAndProcessCSV can return for a header and
\* its data rows.
DashboardDatas(header, rows) ==
    LET acc == FoldRows(EmptyAcc, header, rows)
    IN  {[issuesBySeverity      |-> acc.issuesBySeverity,
          issuesByEnvironment   |-> acc.issuesByEnvironment,
          fixableCriticalIssues |-> acc.fixableCriticals,
          top5RiskiestProjects  |-> top] : top \in TopProjects(acc.projectIssues)}


\* CSV bodies the file URL serves in the end-to-end runs: the scenario of the
\* processor's test, a header without the severity column, a header only,
\* an empty body, and a file with exactly the columns the export asked for.
FullHeader == <<"ISSUE_SEVERITY", "PROJECT_NAME", "COMPUTED_FIXABILITY", "PROJECT_ENVIRONMENTS">>

CSVFiles ==
    { [header |-> FullHeader,
       rows   |-> << <<"critical", "proj1", "fixable", <<"a">> >>,
                     <<"high", "proj1", "", <<"a">> >>,
                     <<"critical", "proj2", "fixable", <<"b">> >> >>],
      [header |-> <<"PROJECT_NAME", "PROJECT_ENVIRONMENTS", "COMPUTED_FIXABILITY">>,
       rows   |-> << <<"proj1", <<"a">>, "fixable">> >>],
      [header |-> FullHeader, rows |-> <<>>],
      [header |-> <<>>, rows |-> <<>>],
      [header |-> RequestedColumns,
       rows   |-> << <<"critical", "9", "cve", "cwe", "org", "proj1", "url", "mature",
                       "true", "2024", "code", "url", "open", "vuln", <<"a">> >> >>] }

\* status codes the file URL answers with
CSVStatusCodes == {StatusOK, StatusInternalServerError}

CSVResponse(status, file) ==
    [status |-> status, header |-> file.header, rows |-> file.rows]

CSVResponses == {CSVResponse(s, f) : s \in CSVStatusCodes, f \in CSVFiles}

NoData == [none |-> TRUE]

SchemaErr == "missing one or more required columns in CSV"

\* part_006:43-133  what FetchAndProcessCSV does with the response c: the
\* status code is not looked at
ReadCSV(c) ==
    IF c.header = <<>>
    THEN /\ ret' = [val |-> NoData, err |-> "EOF"]
         /\ completed' = completed
    ELSE IF MissingRequired(c.header)
    THEN /\ ret' = [val |-> NoData, err |-> SchemaErr]
         /\ completed' = completed
    ELSE /\ \E d \in DashboardDatas(c.header, c.rows) :
               ret' = [val |-> d, err |-> NoErr]
         /\ completed' = Append(completed, "FetchAndProcessCSV")

\* part_006:31-133  FetchAndProcessCSV(ctx, fileURL)
FetchAndProcessCSV ==
    /\ pc = "fetch"
    /\ sent' = sent \cup {"csv"}
    /\ pc' = "fetchReturned"
    /\ \/ /\ \E e \in ErrTexts : ret' = [val |-> NoData, err |-> e]
          /\ completed' = completed
          /\ csv' = csv
       \/ /\ ~ctxCancelled
          /\ fileURL # ""        \* Do rejects a URL without a scheme
          /\ \E c \in CSVResponses :
                /\ csv' = c
                /\ ReadCSV(c)
    /\ UNCHANGED <<reqVars, concVars, ctxCancelled, orgs, orgVars, exportReq, exportID,
                   pollOrg, pollVars, fileURL, called, response>>

\* handlers.go:83-89
AfterFetch ==
    /\ pc = "fetchReturned"
    /\ IF StageFailed(ret)
       THEN Respond(StatusInternalServerError, ErrorBody("fetch", ret.err))
       ELSE Respond(StatusOK, ret.val)
    /\ UNCHANGED <<reqVars, ctxCancelled, csv, concVars, orgs, orgVars, exportReq, exportID,
                   pollOrg, pollVars, ret, fileURL, logVars>>

\* The caller disconnects: r.Context() is cancelled.
CancelCtx ==
    /\ ~ctxCancelled
    /\ pc \notin {"done", "panic"}
    /\ ctxCancelled' = TRUE
    /\ UNCHANGED <<reqVars, csv, concVars, pc, orgs, orgVars, exportReq, exportID, pollOrg,
                   pollVars, ret, fileURL, logVars, response>>

Next ==
    \/ HandlerStart
    \/ GetOrgsInGroupPage
    \/ AfterGetOrgs
    \/ InitiateExport
    \/ AfterInitiate
    \/ Advance
    \/ PollTimeout
    \/ PollTick
    \/ StatusResponse
    \/ HandleStatus
    \/ ResultsResponse
    \/ AfterPoll
    \/ FetchAndProcessCSV
    \/ AfterFetch
    \/ CancelCtx

Spec == Init /\ [][Next]_vars


\* ------------------------------------------- PollExportStatus on its own
\* PollExportStatus(ctx, exportID, orgID) as DataHandler calls it: the state
\* right after AfterInitiate, for a request that named one organization.
InitPoll ==
    /\ method = "GET"
    /\ paramOrgs = << <<"a">> >>
    /\ ctxCancelled \in BOOLEAN
    /\ pc = "poll"
    /\ orgs = paramOrgs
    /\ url = 0
    /\ allOrgIDs = <<>>
    /\ pagesSeen = <<>>
    /\ orgReqs = 0
    /\ exportReq = ExportRequest(orgs)
    /\ exportID \in ExportIDs
    /\ pollOrg = orgs[1]
    /\ now = 0
    /\ tickReady = FALSE
    /\ resp = NoResp
    /\ results = <<>>
    /\ ret = [val |-> exportID, err |-> NoErr]
    /\ fileURL = ""
    /\ sent = {"initiate"}
    /\ called = <<"InitiateExport", "PollExportStatus">>
    /\ completed = <<"InitiateExport">>
    /\ response = NoResponse
    /\ csv = NoCSV
    /\ inflight = <<>>
    /\ maps = <<>>

\* The steps of PollExportStatus: the goroutine keeps running, time keeps
\* passing, and every HTTP exchange ends (with a response, or with the error
\* of its context or of the client's timeout).
PollStep ==
    \/ Advance
    \/ PollTimeout
    \/ PollTick
    \/ StatusResponse
    \/ HandleStatus
    \/ ResultsResponse

NextPoll == PollStep \/ CancelCtx

PollSpec == InitPoll /\ [][NextPoll]_vars

\* Nothing makes the caller cancel; everything else goes on.
FairPollSpec == PollSpec /\ WF_vars(PollStep)

\* --------------------------------------------- FetchAndProcessCSV on its own
\* Field values of the data rows.
Severities   == {"critical", "high", "Critical", ""}
Projects     == {"p1", "p2"}
EnvFields    == {<<>>, <<"a", ",", " ", "b", ",", "a">>, <<",">>}
Fixabilities == {"fixable", "Fixable"}

ColumnValues(col) ==
    CASE col = "ISSUE_SEVERITY"       -> Severities
      [] col = "PROJECT_NAME"         -> Projects
      [] col = "PROJECT_ENVIRONMENTS" -> EnvFields
      [] col = "COMPUTED_FIXABILITY"  -> Fixabilities

\* the records with one field per column of the header
RECURSIVE RecordsOf(_)
RecordsOf(header) ==
    IF header = <<>>
    THEN {<<>>}
    ELSE {<<v>> \o r : v \in ColumnValues(Head(header)), r \in RecordsOf(Tail(header))}

\* the full header, and the full header without one of its columns
Without(header, i) == SubSeq(header, 1, i - 1) \o SubSeq(header, i + 1, Len(header))

Headers == {FullHeader} \cup {Without(FullHeader, i) : i \in 1..Len(FullHeader)}

\* records the reader rejects: one field short, one field long
SampleRecord(header) ==
    [i \in 1..Len(header) |->
        CASE header[i] = "ISSUE_SEVERITY"       -> "critical"
          [] header[i] = "PROJECT_NAME"         -> "p1"
          [] header[i] = "PROJECT_ENVIRONMENTS" -> <<"a", ",", "b">>
          [] header[i] = "COMPUTED_FIXABILITY"  -> "fixable"]

Malformed(header) ==
    {SubSeq(SampleRecord(header), 1, Len(header) - 1), SampleRecord(header) \o <<"">>}

\* the file URL serves a CSV of up to MaxRows rows over one of the headers
ServesSmallFile ==
    \E h \in Headers : \E n \in 0..MaxRows :
        \E rows \in [1..n -> RecordsOf(h) \cup Malformed(h)] :
            csv = CSVResponse(StatusOK, [header |-> h, rows |-> rows])

ProjectNames == <<"q1", "q2", "q3", "q4", "q5", "q6", "q7", "q8">>

ProjectRows(i, severity) ==
    [k \in 1..((i + 1) \div 2) |-> <<severity, ProjectNames[i], "fixable", <<"a", ",", "b">> >>]

RECURSIVE ProjectBlocks(_, _)
ProjectBlocks(n, sev) ==
    IF n = 0 THEN <<>> ELSE ProjectBlocks(n - 1, sev) \o ProjectRows(n, sev[n])

\* the file URL serves a CSV of up to MaxProjects projects, project i with
\* (i + 1) \div 2 rows, all of them critical or all of them high
ServesManyProjects ==
    \E n \in 0..MaxProjects : \E sev \in [1..n -> {"critical", "high"}] :
        csv = CSVResponse(StatusOK, [header |-> FullHeader, rows |-> ProjectBlocks(n, sev)])

\* FetchAndProcessCSV(ctx, fileURL) as DataHandler calls it: the state right
\* after AfterPoll, for a request that named one organization, with the file
\* the URL is going to serve.
InitCSV ==
    /\ method = "GET"
    /\ paramOrgs = << <<"a">> >>
    /\ ctxCancelled = FALSE
    /\ pc = "fetch"
    /\ orgs = paramOrgs
    /\ url = 0
    /\ allOrgIDs = <<>>
    /\ pagesSeen = <<>>
    /\ orgReqs = 0
    /\ exportReq = ExportRequest(orgs)
    /\ exportID = "exp-1"
    /\ pollOrg = orgs[1]
    /\ now = 0
    /\ tickReady = FALSE
    /\ resp = NoResp
    /\ results = <<>>
    /\ ret = [val |-> "u1", err |-> NoErr]
    /\ fileURL = "u1"
    /\ sent = {"initiate", "status", "results"}
    /\ called = <<"InitiateExport", "PollExportStatus", "FetchAndProcessCSV">>
    /\ completed = <<"InitiateExport", "PollExportStatus">>
    /\ response = NoResponse
    /\ ServesSmallFile \/ ServesManyProjects
    /\ inflight = <<>>
    /\ maps = <<>>

\* part_006:43-133 on the response the file URL serves
ProcessCSV ==
    /\ pc = "fetch"
    /\ csv # NoCSV
    /\ sent' = sent \cup {"csv"}
    /\ pc' = "fetchReturned"
    /\ ReadCSV(csv)
    /\ UNCHANGED <<reqVars, ctxCancelled, csv, concVars, orgs, orgVars, exportReq, exportID,
                   pollOrg, pollVars, fileURL, called, response>>

NextCSV == ProcessCSV

CSVSpec == InitCSV /\ [][NextCSV]_vars

\* ------------------------------------------------- requests served at once
\* net/http runs DataHandler in one goroutine per request.  Handlers, Client
\* and CSVProcessor carry only the dependencies given at construction;
\* everything a request computes lives in locals of the call that serves it.
Requests == {"r1", "r2"}

NoFile == [header |-> <<>>, rows |-> <<>>]

\* a request net/http has accepted and not yet handed to DataHandler
Arrived ==
    [pc |-> "start", method |-> "", param |-> <<>>, orgs |-> <<>>,
     listing |-> "none", initiate |-> "none", poll |-> "none", fetch |-> "none",
     file |-> NoFile, left |-> <<>>, code |-> 0, text |-> "", data |-> NoData]

\* the maps of one FetchAndProcessCSV call, and the requests that used them
NoMaps == [acc |-> EmptyAcc, users |-> {}]

\* mutant: the aggregation maps are fields of the processor
MapsOf_Shared(r) == "r1"

\* part_006:63-66  the maps are made inside FetchAndProcessCSV: each call,
\* and so each request, has its own
MapsOf(r) == r

Fail(q, stage) ==
    [q EXCEPT !.pc = "done", !.code = StatusInternalServerError,
              !.text = ErrorBody(stage, "upstream-x")]

\* handlers.go:32-64  method check and query parsing of one request
ServeStart(r) ==
    /\ inflight[r].pc = "start"
    /\ \E m \in Methods : \E s \in Strings(1) :
        LET q == [inflight[r] EXCEPT !.method = m, !.param = splitAndClean(s),
                                     !.orgs = splitAndClean(s)]
        IN  inflight' = [inflight EXCEPT ![r] =
                IF ~MethodAllowed(m)
                THEN [q EXCEPT !.pc = "done", !.code = StatusMethodNotAllowed,
                               !.text = "Method Not Allowed"]
                ELSE [q EXCEPT !.pc = IF NeedsOrgLookup(q.orgs)
                                      THEN "listOrgs" ELSE "initiate"]]
    /\ UNCHANGED maps

\* handlers.go:44-53  the group's organizations are looked up
ServeGetOrgs(r) ==
    /\ inflight[r].pc = "listOrgs"
    /\ \/ inflight' = [inflight EXCEPT ![r] =
              Fail([@ EXCEPT !.listing = "failed"], "orgs")]
       \/ \E ids \in PageContents :
              inflight' = [inflight EXCEPT ![r] =
                  [@ EXCEPT !.listing = "listed", !.orgs = ids, !.pc = "initiate"]]
    /\ UNCHANGED maps

\* handlers.go:66-71  the export is initiated
ServeInitiate(r) ==
    /\ inflight[r].pc = "initiate"
    /\ IF NoOrgsGiven(inflight[r].orgs)
       THEN inflight' = [inflight EXCEPT ![r] = Fail(@, "initiate")]
       ELSE \/ inflight' = [inflight EXCEPT ![r] =
                   Fail([@ EXCEPT !.initiate = "failed"], "initiate")]
            \/ inflight' = [inflight EXCEPT ![r] =
                   [@ EXCEPT !.initiate = "started", !.pc = "poll"]]
    /\ UNCHANGED maps

\* handlers.go:74-79  the export is polled to its end
ServePoll(r) ==
    /\ inflight[r].pc = "poll"
    /\ \/ inflight' = [inflight EXCEPT ![r] =
              Fail([@ EXCEPT !.poll = "failed"], "poll")]
       \/ inflight' = [inflight EXCEPT ![r] =
              [@ EXCEPT !.poll = "finished", !.pc = "fetch"]]
    /\ UNCHANGED maps

\* part_006:31-66  the file is fetched, its header read and the maps made
ServeFetch(r) ==
    /\ inflight[r].pc = "fetch"
    /\ \/ /\ inflight' = [inflight EXCEPT ![r] =
                Fail([@ EXCEPT !.fetch = "failed"], "fetch")]
          /\ UNCHANGED maps
       \/ \E f \in CSVFiles :
            LET q == [inflight[r] EXCEPT !.fetch = "fetched", !.file = f]
            IN  IF f.header = <<>> \/ MissingRequired(f.header)
                THEN /\ inflight' = [inflight EXCEPT ![r] = Fail(q, "fetch")]
                     /\ UNCHANGED maps
                ELSE /\ inflight' = [inflight EXCEPT ![r] =
                            [q EXCEPT !.pc = "fold", !.left = f.rows]]
                     /\ maps' = [maps EXCEPT ![MapsOf(r)] =
                            [acc |-> EmptyAcc, users |-> @.users \cup {r}]]

\* part_006:68-110  one record is read and counted
ServeFold(r) ==
    /\ inflight[r].pc = "fold"
    /\ inflight[r].left # <<>>
    /\ LET q      == inflight[r]
           record == Head(q.left)
       IN  /\ maps' = [maps EXCEPT ![MapsOf(r)] =
                  [acc   |-> IF Accepted(q.file.header, record)
                             THEN FoldRecord(@.acc, q.file.header, record)
                             ELSE @.acc,
                   users |-> @.users \cup {r}]]
           /\ inflight' = [inflight EXCEPT ![r] = [@ EXCEPT !.left = Tail(q.left)]]

\* part_006:112-133, handlers.go:89  the projects are ranked and the data sent
ServeRespond(r) ==
    /\ inflight[r].pc = "fold"
    /\ inflight[r].left = <<>>
    /\ LET acc == maps[MapsOf(r)].acc
       IN  \E top \in TopProjects(acc.projectIssues) :
              inflight' = [inflight EXCEPT ![r] =
                  [@ EXCEPT !.pc = "done", !.code = StatusOK,
                            !.data = [issuesBySeverity      |-> acc.issuesBySeverity,
                                      issuesByEnvironment   |-> acc.issuesByEnvironment,
                                      fixableCriticalIssues |-> acc.fixableCriticals,
                                      top5RiskiestProjects  |-> top]]]
    /\ UNCHANGED maps

InitConc ==
    /\ method = ""
    /\ paramOrgs = <<>>
    /\ ctxCancelled = FALSE
    /\ pc = "idle"
    /\ orgs = <<>>
    /\ url = 0
    /\ allOrgIDs = <<>>
    /\ pagesSeen = <<>>
    /\ orgReqs = 0
    /\ exportReq = NoReq
    /\ exportID = ""
    /\ pollOrg = <<>>
    /\ now = 0
    /\ tickReady = FALSE
    /\ resp = NoResp
    /\ results = <<>>
    /\ ret = NoRet
    /\ fileURL = ""
    /\ sent = {}
    /\ called = <<>>
    /\ completed = <<>>
    /\ response = NoResponse
    /\ csv = NoCSV
    /\ inflight = [r \in Requests |-> Arrived]
    /\ maps = [r \in Requests |-> NoMaps]

soloVars == <<reqVars, ctxCancelled, pc, orgs, orgVars, exportReq, exportID,
              pollOrg, pollVars, ret, fileURL, logVars, response, csv>>

NextConc ==
    \/ \E r \in Requests : ServeStart(r) /\ UNCHANGED soloVars
    \/ \E r \in Requests : ServeGetOrgs(r) /\ UNCHANGED soloVars
    \/ \E r \in Requests : ServeInitiate(r) /\ UNCHANGED soloVars
    \/ \E r \in Requests : ServePoll(r) /\ UNCHANGED soloVars
    \/ \E r \in Requests : ServeFetch(r) /\ UNCHANGED soloVars
    \/ \E r \in Requests : ServeFold(r) /\ UNCHANGED soloVars
    \/ \E r \in Requests : ServeRespond(r) /\ UNCHANGED soloVars

ConcSpec == InitConc /\ [][NextConc]_vars

\* ------------------------------------------------------------------ claims
InPoll == pc \in {"poll", "status", "statusGot", "results"}

TimeoutErr  == "polling timed out after 5 minutes"
ErrorErr    == "export job failed with ERROR status"
NoFileErr   == "export finished but no file URL was provided"

SawStatus(w) == resp.kind = "ok" /\ resp.status = w

Range(q) == {q[i] : i \in 1..Len(q)}

\* C1: PollExportStatus always returns; a return that no FINISHED or ERROR
\* status caused is the timeout failure, and it happens only once the
\* 5-minute deadline has passed (or the caller's context was cancelled).
C1_PollTerminates ==
    /\ [](pc = "pollReturned" /\ ~SawStatus("FINISHED") /\ ~SawStatus("ERROR")
            => /\ ret.err = TimeoutErr
               /\ now >= PollTimeoutSec \/ ctxCancelled)
    /\ [](pc = "pollReturned" /\ ret.err = TimeoutErr
            => now >= PollTimeoutSec \/ ctxCancelled)
    /\ (InPoll ~> pc = "pollReturned")

\* the deadline passed with every status answered PENDING or not at all
C1_Witness ==
    /\ pc = "pollReturned"
    /\ ret.err = TimeoutErr
    /\ now = PollTimeoutSec
    /\ ~ctxCancelled
    /\ "status" \in sent
    /\ "results" \notin sent


\* C2 as stated: PollExportStatus fails only after an ERROR status or when
\* its deadline has passed (its context is done).
C2_FailureOnlyErrorOrTimeout ==
    pc = "pollReturned" /\ ret.err # NoErr
        => SawStatus("ERROR") \/ now >= PollTimeoutSec \/ ctxCancelled

\* C2 amended: PollExportStatus fails only after an ERROR status, when its
\* context is done (deadline passed or caller cancelled), or after a FINISHED
\* status whose results list is empty; it returns a file URL only after a
\* FINISHED status; the handler goes on to FetchAndProcessCSV only with a
\* returned URL.
C2_Outcomes ==
    /\ pc = "pollReturned" /\ ret.err # NoErr
          => \/ SawStatus("ERROR") /\ ret.err = ErrorErr
             \/ (now >= PollTimeoutSec \/ ctxCancelled) /\ ret.err = TimeoutErr
             \/ SawStatus("FINISHED") /\ results = <<>> /\ ret.err = NoFileErr
    /\ pc = "pollReturned" /\ ret.err = NoErr
          => SawStatus("FINISHED") /\ "results" \in sent /\ ret.val \in FileURLs
    /\ pc = "fetch" => ret.err = NoErr /\ fileURL = ret.val
    /\ "FetchAndProcessCSV" \in Range(called) => "PollExportStatus" \in Range(completed)

\* FINISHED was reported, the results list was empty, well before the deadline
C2_Witness ==
    /\ pc = "pollReturned"
    /\ SawStatus("FINISHED")
    /\ results = <<>>
    /\ ret.err = NoFileErr
    /\ now < PollTimeoutSec
    /\ ~ctxCancelled

\* C3: a failed status request (transport error, non-200 status, unreadable
\* body, undecodable JSON) does not make PollExportStatus return: the loop
\* goes back to its select, with nothing returned.
C3_FailedStatusContinues ==
    [][pc = "statusGot" /\ StatusRequestFailed(resp) /\ pc' # pc
          => pc' = "poll" /\ ret' = ret /\ completed' = completed]_vars

\* a status response did not decode, before the deadline, and is being handled
C3_Witness ==
    /\ pc = "statusGot"
    /\ resp.kind = "decode"
    /\ now < PollTimeoutSec
    /\ ~ctxCancelled

\* C4: after a FINISHED status PollExportStatus has queried the results
\* endpoint, and with a results list of at least one entry it returns the
\* URL of the first entry.
C4_FirstFileReturned ==
    /\ pc = "pollReturned" /\ SawStatus("FINISHED")
          => /\ "results" \in sent
             /\ Len(results) > 0 => ret.err = NoErr /\ ret.val = results[1]
    /\ pc = "pollReturned" /\ ret.err = NoErr
          => Len(results) > 0 /\ ret.val = results[1]

\* a list of two different files came back
C4_Witness ==
    /\ pc = "pollReturned"
    /\ Len(results) = 2
    /\ results[1] # results[2]
    /\ ret.err = NoErr
    /\ ret.val = results[1]


IsPrefix(q, r) == Len(q) <= Len(r) /\ \A i \in 1..Len(q) : q[i] = r[i]

StageOrder == <<"InitiateExport", "PollExportStatus", "FetchAndProcessCSV">>

\* C5: the stages run in the order (GetOrgsInGroup) -> InitiateExport ->
\* PollExportStatus -> FetchAndProcessCSV -> response; a stage is called only
\* after the one before returned without error, so no status request goes
\* out before InitiateExport succeeded and no CSV download before
\* PollExportStatus returned a URL.
C5_StagesInOrder ==
    /\ \/ IsPrefix(called, StageOrder)
       \/ IsPrefix(called, <<"GetOrgsInGroup">> \o StageOrder)
    /\ IsPrefix(completed, called)
    /\ Len(called) <= Len(completed) + 1
    /\ "orgs" \in sent => "GetOrgsInGroup" \in Range(called)
    /\ "initiate" \in sent
          => /\ "InitiateExport" \in Range(called)
             /\ "GetOrgsInGroup" \in Range(called) => "GetOrgsInGroup" \in Range(completed)
    /\ "status" \in sent => "InitiateExport" \in Range(completed)
    /\ "results" \in sent => "status" \in sent
    /\ "csv" \in sent => "PollExportStatus" \in Range(completed)
    /\ response.code = StatusOK => "FetchAndProcessCSV" \in Range(completed)
    /\ pc = "done" /\ method = "GET" /\ response.code # StatusOK
          => Len(called) = Len(completed) + 1

\* the whole pipeline ran, organization lookup included
C5_Witness ==
    /\ pc = "done"
    /\ response.code = StatusOK
    /\ completed = <<"GetOrgsInGroup">> \o StageOrder
    /\ sent = {"orgs", "initiate", "status", "results", "csv"}

GenericMessages ==
    {"Failed to fetch Snyk organizations", "Failed to initiate Snyk export",
     "Failed to complete Snyk export", "Failed to process exported Snyk data"}

\* the message that belongs to the stage that failed
MessageOf(fn) ==
    CASE fn = "GetOrgsInGroup"     -> "Failed to fetch Snyk organizations"
      [] fn = "InitiateExport"     -> "Failed to initiate Snyk export"
      [] fn = "PollExportStatus"   -> "Failed to complete Snyk export"
      [] fn = "FetchAndProcessCSV" -> "Failed to process exported Snyk data"

IsDashboardData(d) ==
    DOMAIN d = {"issuesBySeverity", "issuesByEnvironment",
                "fixableCriticalIssues", "top5RiskiestProjects"}

\* C6: when a stage fails the response is 500 with the fixed message of that
\* stage, whatever the upstream error text, and carries no data; 200 is sent
\* only when every stage succeeded and then carries the DashboardData that
\* FetchAndProcessCSV returned.
C6_ErrorOrFullData ==
    pc = "done" /\ method = "GET"
        => /\ response.code \in {StatusOK, StatusInternalServerError}
           /\ response.code = StatusInternalServerError
                 <=> Len(called) = Len(completed) + 1
           /\ response.code = StatusInternalServerError
                 => /\ ret.err # NoErr
                    /\ response.body \in GenericMessages
                    /\ response.body = MessageOf(called[Len(called)])
                    /\ response.body # ret.err
           /\ response.code = StatusOK
                 => /\ called = completed
                    /\ "FetchAndProcessCSV" \in Range(completed)
                    /\ ret.err = NoErr
                    /\ response.body = ret.val
                    /\ IsDashboardData(response.body)

\* a stage failed with an upstream error text, after other stages succeeded
C6_Witness ==
    /\ pc = "done"
    /\ response.code = StatusInternalServerError
    /\ response.body = "Failed to process exported Snyk data"
    /\ ret.err \in ErrTexts

\* C7: a request whose method is not GET is answered 405, and no outbound
\* call is made for it.
C7_NonGetRejected ==
    /\ method \notin {"", "GET"}
          => /\ pc = "done"
             /\ response = [code |-> StatusMethodNotAllowed, body |-> "Method Not Allowed"]
             /\ sent = {}
             /\ called = <<>>
             /\ orgReqs = 0
             /\ ~exportReq.sent
    /\ response.code = StatusMethodNotAllowed => method \notin {"", "GET"}

C7_Witness == method = "POST" /\ pc = "done" /\ response.code = StatusMethodNotAllowed

RECURSIVE Flatten(_)
Flatten(pages) == IF pages = <<>> THEN <<>> ELSE Head(pages).ids \o Flatten(Tail(pages))

ListingComplete ==
    /\ pagesSeen # <<>>
    /\ \A i \in 1..Len(pagesSeen) : pagesSeen[i].next <=> i < Len(pagesSeen)

\* C8: when the `orgs` parameter yields an empty list, GetOrgsInGroup has
\* returned before InitiateExport is called and the export runs on the list
\* it resolved; when `orgs` yields a non-empty list GetOrgsInGroup is not
\* called and the export runs on that list.
C8_OrgLookup ==
    /\ method = "GET" /\ paramOrgs = <<>> /\ "InitiateExport" \in Range(called)
          => /\ called[1] = "GetOrgsInGroup"
             /\ completed[1] = "GetOrgsInGroup"
             /\ ListingComplete
             /\ orgs = Flatten(pagesSeen)
    /\ method = "GET" /\ paramOrgs = <<>> /\ pc = "initiate"
          => completed = <<"GetOrgsInGroup">> /\ orgs = Flatten(pagesSeen)
    /\ method = "GET" /\ paramOrgs # <<>>
          => /\ "GetOrgsInGroup" \notin Range(called)
             /\ "orgs" \notin sent
             /\ orgReqs = 0
             /\ orgs = paramOrgs
    /\ exportReq.sent => exportReq.org = orgs[1]

\* the export was initiated on a list resolved from two pages of the group
C8_Witness ==
    /\ paramOrgs = <<>>
    /\ exportReq.sent
    /\ Len(pagesSeen) = 2
    /\ Len(orgs) >= 2

\* C9: InitiateExport called with an empty organization list returns an error
\* at once, having sent no request.
C9_EmptyOrgsFailFast ==
    "InitiateExport" \in Range(called) /\ orgs = <<>>
        => /\ pc \in {"initReturned", "done"}
           /\ "initiate" \notin sent
           /\ ~exportReq.sent
           /\ "InitiateExport" \notin Range(completed)
           /\ ret.err = "no organizations specified for export"
           /\ pc = "done" => response.code = StatusInternalServerError

\* the group had no organization
C9_Witness ==
    /\ pc = "initReturned"
    /\ orgs = <<>>
    /\ completed = <<"GetOrgsInGroup">>
    /\ ret.err = "no organizations specified for export"

\* C10: GetOrgsInGroup requests one page at a time, following next, and
\* stops at the first page without next; it then returns the IDs of all
\* pages in page order. When a page fails it returns an error and no IDs,
\* and the handler answers 500 without calling InitiateExport.
C10_Pagination ==
    /\ orgReqs \in {Len(pagesSeen), Len(pagesSeen) + 1}
    /\ pc = "listOrgs"
          => /\ url = Len(pagesSeen) + 1
             /\ orgReqs = Len(pagesSeen)
             /\ \A i \in 1..Len(pagesSeen) : pagesSeen[i].next
             /\ allOrgIDs = Flatten(pagesSeen)
    /\ pc = "orgsReturned" /\ ret.err = NoErr
          => /\ ListingComplete
             /\ orgReqs = Len(pagesSeen)
             /\ ret.val = Flatten(pagesSeen)
    /\ pc = "orgsReturned" /\ ret.err # NoErr
          => /\ ret.val = <<>>
             /\ orgReqs = Len(pagesSeen) + 1
    /\ "GetOrgsInGroup" \in Range(called) /\ "GetOrgsInGroup" \notin Range(completed)
          => /\ orgs = <<>>
             /\ "InitiateExport" \notin Range(called)
             /\ pc = "done" => response.code = StatusInternalServerError
    /\ "GetOrgsInGroup" \in Range(completed) /\ pc # "orgsReturned"
          => ListingComplete /\ orgs = Flatten(pagesSeen)

\* two non-empty pages were concatenated
C10_Witness ==
    /\ pc = "orgsReturned"
    /\ ret.err = NoErr
    /\ Len(pagesSeen) = 2
    /\ pagesSeen[1].ids = << <<"b">> >>
    /\ pagesSeen[2].ids = << <<"a">>, <<"b">> >>
    /\ ret.val = << <<"b">>, <<"a">>, <<"b">> >>


\* C11: a non-2xx status of the GET of the CSV file URL makes
\* FetchAndProcessCSV fail and the handler respond 500, whatever the body of
\* that response contains.
C11_NonSuccessFatal ==
    csv # NoCSV /\ ~(csv.status >= 200 /\ csv.status < 300)
        => /\ pc = "fetchReturned" => ret.err # NoErr
           /\ pc = "done" => response.code = StatusInternalServerError


\* ---------------------------------------------- claims about the aggregator
\* FetchAndProcessCSV returned a DashboardData for the file in csv
Aggregated == pc = "fetchReturned" /\ csv # NoCSV /\ ret.err = NoErr

RowIndices == 1..Len(csv.rows)

\* the field of a data row under a column, "" where the row has none
FieldOf(row, col) ==
    LET i == CHOOSE j \in 1..Len(csv.header) : csv.header[j] = col
    IN  IF i <= Len(row) THEN row[i] ELSE ""

\* a data row with exactly one field per column of the header
WellFormed(row) == Len(row) = Len(csv.header)

WellFormedRows == {i \in RowIndices : WellFormed(csv.rows[i])}

RECURSIVE SumValues(_)
SumValues(m) ==
    IF DOMAIN m = {}
    THEN 0
    ELSE LET k == CHOOSE x \in DOMAIN m : TRUE
         IN  m[k] + SumValues([x \in DOMAIN m \ {k} |-> m[x]])

\* C12 as stated: the values of issuesBySeverity add up to the number of data
\* rows with a non-empty severity.
C12_SeveritySumAllRows ==
    Aggregated =>
        SumValues(ret.val.issuesBySeverity) =
            Cardinality({i \in RowIndices : FieldOf(csv.rows[i], "ISSUE_SEVERITY") # ""})

\* C12 amended: the values of issuesBySeverity add up to the number of data
\* rows that have as many fields as the header and a non-empty severity; no
\* key of the map is the empty string.
C12_SeveritySum ==
    Aggregated =>
        /\ SumValues(ret.val.issuesBySeverity) =
              Cardinality({i \in WellFormedRows :
                              FieldOf(csv.rows[i], "ISSUE_SEVERITY") # ""})
        /\ "" \notin DOMAIN ret.val.issuesBySeverity

\* a file with a row of empty severity next to a row that is counted
C12_Witness ==
    /\ Aggregated
    /\ \E i, j \in WellFormedRows :
          /\ FieldOf(csv.rows[i], "ISSUE_SEVERITY") = ""
          /\ FieldOf(csv.rows[j], "ISSUE_SEVERITY") # ""
    /\ SumValues(ret.val.issuesBySeverity) = 1


\* rows with row i replaced by r, and rows without row i
ReplaceRow(rows, i, r) == [rows EXCEPT ![i] = r]
RemoveRow(rows, i) == SubSeq(rows, 1, i - 1) \o SubSeq(rows, i + 1, Len(rows))

\* C13: a data row with fewer fields than the header contributes to no
\* counter: the aggregation of a file in which a row is replaced by a
\* truncation of it, shorter than the header, completes and gives exactly the
\* results of the file without that row; a file that has such a row is
\* aggregated to a result of the file without it.
C13_ShortRowsIgnored ==
    Aggregated =>
        \A i \in RowIndices :
            LET without == DashboardDatas(csv.header, RemoveRow(csv.rows, i))
            IN  /\ \A k \in 0..(Len(csv.header) - 1) :
                      k <= Len(csv.rows[i]) =>
                        LET with == DashboardDatas(csv.header,
                                       ReplaceRow(csv.rows, i, SubSeq(csv.rows[i], 1, k)))
                        IN  with = without /\ with # {}
                /\ Len(csv.rows[i]) < Len(csv.header) => ret.val \in without

\* a file with a short row that still has every required field, next to a
\* row that is counted
C13_Witness ==
    /\ Aggregated
    /\ \E i, j \in RowIndices :
          /\ Len(csv.rows[i]) = Len(csv.header) - 1
          /\ Accepted_RequiredPresent(csv.header, csv.rows[i])
          /\ WellFormed(csv.rows[j])
    /\ SumValues(ret.val.issuesByEnvironment) = 3


\* C14: fixableCriticalIssues is the number of accepted rows whose severity
\* is exactly "critical" and whose fixability is exactly "fixable"; rows
\* with "Critical" or "Fixable" do not count.
C14_FixableCriticals ==
    Aggregated =>
        ret.val.fixableCriticalIssues =
            Cardinality({i \in WellFormedRows :
                            /\ FieldOf(csv.rows[i], "ISSUE_SEVERITY") = "critical"
                            /\ FieldOf(csv.rows[i], "COMPUTED_FIXABILITY") = "fixable"})

\* one row counts, one row differs from it in the case of a letter only
C14_Witness ==
    /\ Aggregated
    /\ ret.val.fixableCriticalIssues = 1
    /\ \E i, j \in WellFormedRows :
          /\ FieldOf(csv.rows[i], "ISSUE_SEVERITY") = "critical"
          /\ FieldOf(csv.rows[i], "COMPUTED_FIXABILITY") = "fixable"
          /\ FieldOf(csv.rows[j], "ISSUE_SEVERITY") = "Critical"
          /\ FieldOf(csv.rows[j], "COMPUTED_FIXABILITY") = "fixable"


\* the project names of the accepted rows
ProjectsOfRows == {FieldOf(csv.rows[i], "PROJECT_NAME") : i \in WellFormedRows}

Min(a, b) == IF a < b THEN a ELSE b

\* C15: top5RiskiestProjects has min(5, number of distinct project names of
\* accepted rows) entries, and every entry is followed by one with fewer
\* criticals, or with equally many criticals and at most as many highs.
C15_TopLengthAndOrder ==
    Aggregated =>
        LET top == ret.val.top5RiskiestProjects
        IN  /\ Len(top) = Min(TopN, Cardinality(ProjectsOfRows))
            /\ \A i \in 1..(Len(top) - 1) :
                  \/ top[i].criticalIssueCount > top[i + 1].criticalIssueCount
                  \/ /\ top[i].criticalIssueCount = top[i + 1].criticalIssueCount
                     /\ top[i].highIssueCount >= top[i + 1].highIssueCount

\* more projects than the list holds; the list is cut, and it has a pair
\* ordered by criticals, a pair ordered by highs and a pair of equals
C15_Witness ==
    /\ Aggregated
    /\ Cardinality(ProjectsOfRows) > TopN
    /\ LET top == ret.val.top5RiskiestProjects
       IN  /\ Len(top) = TopN
           /\ \E i \in 1..(TopN - 1) :
                 top[i].criticalIssueCount > top[i + 1].criticalIssueCount
           /\ \E i \in 1..(TopN - 1) :
                 /\ top[i].criticalIssueCount = top[i + 1].criticalIssueCount
                 /\ top[i].highIssueCount > top[i + 1].highIssueCount
           /\ \E i \in 1..(TopN - 1) :
                 /\ top[i].criticalIssueCount = top[i + 1].criticalIssueCount
                 /\ top[i].highIssueCount = top[i + 1].highIssueCount


C17_ExactlyOneBucket ==
    Aggregated /\ ~Has(csv.header, "PROJECT_ENVIRONMENTS") =>
        \E k \in {UndefinedEnv, NAEnv} : DOMAIN ret.val.issuesByEnvironment = {k}

\* C17 amended: without an environment column every accepted data row falls
\* into the "N/A" bucket: issuesByEnvironment has no other key, it has that
\* key exactly when a row was accepted, and its count is the number of
\* accepted rows.
C17_SentinelBucket ==
    Aggregated /\ ~Has(csv.header, "PROJECT_ENVIRONMENTS") =>
        LET m == ret.val.issuesByEnvironment
        IN  /\ DOMAIN m \subseteq {NAEnv}
            /\ WellFormedRows # {} =>
                  DOMAIN m = {NAEnv} /\ m[NAEnv] = Cardinality(WellFormedRows)
            /\ WellFormedRows = {} => DOMAIN m = {}

\* a file without the environment column, with two accepted rows
C17_Witness ==
    /\ Aggregated
    /\ ~Has(csv.header, "PROJECT_ENVIRONMENTS")
    /\ Cardinality(WellFormedRows) = 2
    /\ ret.val.issuesByEnvironment[NAEnv] = 2


\* C18: with the severity and the project-name column but no fixability
\* column the aggregator does not fail: it returns a DashboardData with
\* fixableCriticalIssues = 0.
C18_FixabilityOptional ==
    /\ pc = "fetchReturned"
    /\ csv # NoCSV
    /\ Has(csv.header, "ISSUE_SEVERITY")
    /\ Has(csv.header, "PROJECT_NAME")
    /\ ~Has(csv.header, "COMPUTED_FIXABILITY")
    => /\ ret.err = NoErr
       /\ ret.val # NoData
       /\ ret.val.fixableCriticalIssues = 0

\* the (criticalIssueCount, highIssueCount) pairs of a list of projects
CountPair(x) == <<x.criticalIssueCount, x.highIssueCount>>
CountPairs(top) == [i \in 1..Len(top) |-> CountPair(top[i])]

\* C19 as stated: every aggregation of the same file returns a list of at
\* most 5 entries with the same sequence of count pairs, and two such lists
\* differ only in the order of their projects.
C19_SameProjectsReordered ==
    Aggregated =>
        \A d \in DashboardDatas(csv.header, csv.rows) :
            /\ Len(d.top5RiskiestProjects) <= TopN
            /\ CountPairs(d.top5RiskiestProjects) = CountPairs(ret.val.top5RiskiestProjects)
            /\ Range(d.top5RiskiestProjects) = Range(ret.val.top5RiskiestProjects)

\* C19 amended: every aggregation of the same file returns a list of at most
\* 5 entries with the same sequence of count pairs; a project that one list
\* has and the other has not has the count pair of the last entry (it ties
\* with the project that took its place at the cut).
C19_DeterministicUpToTies ==
    Aggregated =>
        \A d \in DashboardDatas(csv.header, csv.rows) :
            LET mine   == ret.val.top5RiskiestProjects
                theirs == d.top5RiskiestProjects
            IN  /\ Len(theirs) <= TopN
                /\ CountPairs(theirs) = CountPairs(mine)
                /\ \A x \in Range(theirs) \ Range(mine) :
                      /\ Len(mine) = TopN
                      /\ CountPair(x) = CountPair(mine[TopN])

\* the same file has two results, one with tied projects the other way round
\* and one with another project in the last place
C19_Witness ==
    /\ Aggregated
    /\ \E d \in DashboardDatas(csv.header, csv.rows) :
          /\ d.top5RiskiestProjects # ret.val.top5RiskiestProjects
          /\ Range(d.top5RiskiestProjects) = Range(ret.val.top5RiskiestProjects)
    /\ \E d \in DashboardDatas(csv.header, csv.rows) :
          Range(d.top5RiskiestProjects) # Range(ret.val.top5RiskiestProjects)


\* C20: the export that is initiated covers every organization of the
\* request's list: each ID of the list is part of the export request sent,
\* in its URL or in its filters.
C20_ExportCoversAllOrgs ==
    exportReq.sent =>
        \A i \in 1..Len(orgs) :
            orgs[i] = exportReq.org \/ orgs[i] \in Range(exportReq.bodyOrgs)


\* ------------------------------------------- claims about requests at once
\* what DataHandler answers to a request served alone, from the request's
\* own parameters and the upstream responses it got itself
SoloFailedStage(q) ==
    CASE q.listing = "failed"  -> "orgs"
      [] q.listing # "failed" /\ (q.initiate = "failed" \/ q.orgs = <<>>) -> "initiate"
      [] q.poll = "failed"     -> "poll"
      [] q.fetch = "failed"    -> "fetch"
      [] q.fetch = "fetched" /\ (q.file.header = <<>> \/ MissingRequired(q.file.header))
                               -> "fetch"
      [] OTHER                 -> ""

SoloAnswer(q) ==
    IF q.method # "GET"
    THEN q.code = StatusMethodNotAllowed /\ q.text = "Method Not Allowed" /\ q.data = NoData
    ELSE IF SoloFailedStage(q) # ""
    THEN /\ q.code = StatusInternalServerError
         /\ q.text = ErrorBody(SoloFailedStage(q), "")
         /\ q.data = NoData
    ELSE /\ q.code = StatusOK
         /\ q.text = ""
         /\ q.data \in DashboardDatas(q.file.header, q.file.rows)

\* C21: with two requests in flight and their steps interleaved in any
\* order, the answer to each is the answer it would get alone, fixed by its
\* own parameters and its own upstream responses, and no aggregation state is
\* touched by more than the one request that made it.
C21_RequestsIndependent ==
    /\ \A r \in DOMAIN inflight : inflight[r].pc = "done" => SoloAnswer(inflight[r])
    /\ \A k \in DOMAIN maps : maps[k].users \subseteq {k}

\* one request has been answered from its three rows while the other is in
\* the middle of counting its own
C21_Witness ==
    /\ DOMAIN inflight = Requests
    /\ inflight["r1"].pc = "done"
    /\ inflight["r1"].code = StatusOK
    /\ inflight["r1"].data.fixableCriticalIssues = 2
    /\ inflight["r2"].pc = "fold"
    /\ Len(inflight["r2"].file.rows) = 3
    /\ Len(inflight["r2"].left) = 1
    /\ maps["r2"].acc.fixableCriticals = 1


\* C22: the caller's cancellation reaches every outbound call.  From the
\* moment the request's context is cancelled no client call (org listing,
\* initiate, status poll, results fetch, CSV download) returns without
\* error; a polling loop that is running leaves only by returning a
\* failure; after a failed poll DataHandler answers 500 and calls nothing
\* more; and an answered request sends and calls nothing.
C22_CancellationPropagates ==
    [][/\ ctxCancelled => completed' = completed
       /\ ctxCancelled /\ InPoll /\ pc' \notin {"poll", "status", "statusGot", "results"}
            => pc' = "pollReturned" /\ ret'.err # NoErr
       /\ pc = "pollReturned" /\ ret.err # NoErr /\ pc' # pc
            => /\ pc' = "done"
               /\ response'.code = StatusInternalServerError
               /\ called' = called
               /\ sent' = sent
       /\ pc = "done" => called' = called /\ sent' = sent]_vars

\* the caller went away while the export was being polled, well before the
\* deadline: the loop returned the failure and the CSV was never asked for
C22_Witness ==
    /\ ctxCancelled
    /\ pc = "done"
    /\ "PollExportStatus" \in Range(called)
    /\ "FetchAndProcessCSV" \notin Range(called)
    /\ "status" \in sent
    /\ now < PollTimeoutSec
    /\ ret.err = TimeoutErr
    /\ response.code = StatusInternalServerError


\* client.go:196,254,256  every error PollExportStatus returns is made by
\* errors.New: it has no Unwrap, its chain is itself alone
Chain(err) == {err}

DeadlineExceeded == "context deadline exceeded"

\* errors.Is(err, target)
ErrorsIs(err, target) == target \in Chain(err)

\* C23: when polling ends because the deadline passed, the error returned
\* satisfies errors.Is(err, context.DeadlineExceeded).
C23_TimeoutIsDeadlineExceeded ==
    pc = "pollReturned" /\ now >= PollTimeoutSec /\ ~ctxCancelled /\ ret.err = TimeoutErr
        => ErrorsIs(ret.err, DeadlineExceeded)


\* the number of accepted rows of a project with a severity
RowsOf(project, severity) ==
    Cardinality({i \in WellFormedRows :
                    /\ FieldOf(csv.rows[i], "PROJECT_NAME") = project
                    /\ FieldOf(csv.rows[i], "ISSUE_SEVERITY") = severity})

RefPair(project) == <<RowsOf(project, "critical"), RowsOf(project, "high")>>

LexGreater(a, b) == a[1] > b[1] \/ (a[1] = b[1] /\ a[2] > b[2])

\* C24: every entry of top5RiskiestProjects is a project of an accepted row,
\* listed once, with criticalIssueCount and highIssueCount the numbers of its
\* accepted rows of severity "critical" and "high"; while the list has room
\* every project of an accepted row is in it, also one with no critical and
\* no high row; and no project left out has a (critical, high) pair
\* lexicographically greater than that of a listed one.
C24_TopAgainstReference ==
    Aggregated =>
        LET top   == ret.val.top5RiskiestProjects
            names == {top[i].name : i \in 1..Len(top)}
        IN  /\ names \subseteq ProjectsOfRows
            /\ Cardinality(names) = Len(top)
            /\ \A i \in 1..Len(top) : CountPair(top[i]) = RefPair(top[i].name)
            /\ Len(top) < TopN => names = ProjectsOfRows
            /\ \A p \in ProjectsOfRows \ names : \A i \in 1..Len(top) :
                  ~LexGreater(RefPair(p), CountPair(top[i]))

\* more projects than the list holds: one is left out with a smaller pair
\* than the last listed, and the list is led by a project with two rows
C24_Witness ==
    /\ Aggregated
    /\ LET top   == ret.val.top5RiskiestProjects
           names == {top[i].name : i \in 1..Len(top)}
       IN  /\ Len(top) = TopN
           /\ \E p \in ProjectsOfRows \ names : LexGreater(CountPair(top[TopN]), RefPair(p))
           /\ top[1].criticalIssueCount + top[1].highIssueCount >= 2


Occurrences(k, q) == Cardinality({j \in 1..Len(q) : q[j] = k})

\* the environments a field lists: its comma-separated parts, trimmed, the
\* empty ones dropped; an empty field lists the "undefined" bucket
Listed(field) == IF field = <<>> THEN <<UndefinedEnv>> ELSE splitAndClean(field)

RECURSIVE ListedInRows(_, _)
ListedInRows(k, rows) ==
    IF rows = {}
    THEN 0
    ELSE LET i == CHOOSE x \in rows : TRUE
         IN  Occurrences(k, Listed(FieldOf(csv.rows[i], "PROJECT_ENVIRONMENTS")))
                + ListedInRows(k, rows \ {i})

\* C25: with an environment column, the count of every environment in
\* issuesByEnvironment is the number of times accepted rows list it, a value
\* listed twice in one row counted twice, and the count of "undefined" is the
\* number of accepted rows with an empty environment field; no key has a
\* comma or a blank at either end.
C25_EnvironmentCounts ==
    Aggregated /\ Has(csv.header, "PROJECT_ENVIRONMENTS") =>
        LET m    == ret.val.issuesByEnvironment
            keys == UNION {Range(Listed(FieldOf(csv.rows[i], "PROJECT_ENVIRONMENTS"))) :
                              i \in WellFormedRows}
        IN  /\ DOMAIN m = keys
            /\ \A k \in keys : m[k] = ListedInRows(k, WellFormedRows)
            /\ \A k \in DOMAIN m :
                  /\ k # <<>>
                  /\ "," \notin Range(k)
                  /\ k[1] # " " /\ k[Len(k)] # " "

\* one row lists "a, b,a" and another has an empty field
C25_Witness ==
    /\ Aggregated
    /\ Has(csv.header, "PROJECT_ENVIRONMENTS")
    /\ Cardinality(WellFormedRows) = 2
    /\ \E i \in WellFormedRows :
          FieldOf(csv.rows[i], "PROJECT_ENVIRONMENTS") = <<"a", ",", " ", "b", ",", "a">>
    /\ \E i \in WellFormedRows : FieldOf(csv.rows[i], "PROJECT_ENVIRONMENTS") = <<>>
    /\ ret.val.issuesByEnvironment =
          (<<"a">> :> 2) @@ (<<"b">> :> 1) @@ (UndefinedEnv :> 1)


\* C26: whenever DataHandler has called PollExportStatus the organization
\* list is not empty, the ID passed is its first element and is the ID of
\* the export request InitiateExport sent; reading the first element never
\* fails; and a request whose group turned out to have no organization is
\* answered 500 without polling.
C26_PollsTheExportsOrg ==
    /\ pc # "panic"
    /\ "PollExportStatus" \in Range(called) =>
          /\ Len(orgs) > 0
          /\ exportReq.sent
          /\ pollOrg = orgs[1]
          /\ pollOrg = exportReq.org
    /\ "GetOrgsInGroup" \in Range(completed) /\ orgs = <<>> =>
          /\ "PollExportStatus" \notin Range(called)
          /\ ~exportReq.sent
          /\ pc = "done" => response.code = StatusInternalServerError

\* the list came from the group, it has two organizations, and the export of
\* the first is being polled
C26_Witness ==
    /\ paramOrgs = <<>>
    /\ "GetOrgsInGroup" \in Range(completed)
    /\ Len(orgs) = 2
    /\ orgs[1] # orgs[2]
    /\ InPoll
    /\ "status" \in sent
    /\ pollOrg = exportReq.org


\* C27: whenever InitiateExport returns without error the export ID it
\* returns is not empty, and PollExportStatus is never called with an empty
\* export ID.
C27_ExportIDNonEmpty ==
    /\ pc = "initReturned" /\ ret.err = NoErr => ret.val # ""
    /\ "PollExportStatus" \in Range(called) => exportID # ""


\* C28 as stated: the values of issuesByEnvironment add up to at least the
\* number of accepted rows, whatever the environment fields are.
C28_EveryRowCounted ==
    Aggregated => SumValues(ret.val.issuesByEnvironment) >= Cardinality(WellFormedRows)

\* the accepted rows whose environment field is empty or lists an
\* environment, and all accepted rows of a file without the column
RowsWithEnvironment ==
    {i \in WellFormedRows :
        \/ ~Has(csv.header, "PROJECT_ENVIRONMENTS")
        \/ Listed(FieldOf(csv.rows[i], "PROJECT_ENVIRONMENTS")) # <<>>}

\* C28 amended: every accepted row whose environment field is empty or has a
\* non-blank comma-separated part increments at least one bucket, so the
\* values add up to at least the number of these rows; an accepted row whose
\* field is not empty and made only of commas and blanks increments none: a
\* file with no other accepted row has an empty issuesByEnvironment.
C28_RowsWithEnvironmentCounted ==
    Aggregated =>
        LET m == ret.val.issuesByEnvironment
        IN  /\ SumValues(m) >= Cardinality(RowsWithEnvironment)
            /\ RowsWithEnvironment = {} => DOMAIN m = {}

\* a row with the field "," next to a row with an empty field: one bucket,
\* counted once
C28_Witness ==
    /\ Aggregated
    /\ Has(csv.header, "PROJECT_ENVIRONMENTS")
    /\ Cardinality(WellFormedRows) = 2
    /\ \E i \in WellFormedRows : FieldOf(csv.rows[i], "PROJECT_ENVIRONMENTS") = <<",">>
    /\ \E i \in WellFormedRows : FieldOf(csv.rows[i], "PROJECT_ENVIRONMENTS") = <<>>
    /\ ret.val.issuesByEnvironment = (UndefinedEnv :> 1)


\* C29: every column the aggregator requires is one of the columns
\* InitiateExport asks for, and a file with exactly the requested columns is
\* never refused for a missing required column.
C29_RequiredColumnsRequested ==
    pc = "fetchReturned" /\ csv # NoCSV /\ csv.header = RequestedColumns
        => /\ \A c \in RequiredColumns : Has(RequestedColumns, c)
           /\ ret.err # SchemaErr


\* C30: no status request is sent before the first poll interval has passed;
\* a status request is sent only by taking a tick from the ticker, and the
\* ticker gets a tick only when a whole interval passes, so there is at most
\* one request per tick; and a loop that returns without having sent a
\* status request returns the timeout failure, its context being done.
C30_OneRequestPerTick ==
    /\ []("status" \in sent \/ tickReady => now >= PollIntervalSec)
    /\ [](pc = "pollReturned" /\ "status" \notin sent
            => ret.err = TimeoutErr /\ PollingCtxDone(now, ctxCancelled))
    /\ [][/\ pc' = "status" /\ pc # "status"
             => pc = "poll" /\ tickReady /\ ~tickReady' /\ now' = now
          /\ "status" \in sent' /\ "status" \notin sent => pc = "poll" /\ pc' = "status"
          /\ tickReady' /\ ~tickReady => now' = now + PollIntervalSec]_vars

\* the caller's context was cancelled before the first tick: the loop
\* returned the timeout failure at once and no request was sent
C30_Witness ==
    /\ pc = "pollReturned"
    /\ ctxCancelled
    /\ now = 0
    /\ ~tickReady
    /\ "status" \notin sent
    /\ ret.err = TimeoutErr

====
